---- MODULE Spec2Model ----
(***************************************************************************)
(* A model of the district data fetcher (src/fetch.py) and of the          *)
(* Activities flattener (src/parser.py).                                   *)
(*                                                                         *)
(* Text values are sequences of one-character strings, so that strip() and *)
(* lower() are computed, not assumed.  A JSON value is a tagged record:    *)
(* [t |-> "obj", f |-> <mapping>] is a JSON object (a Python dict), and    *)
(* [t |-> "str"] is a JSON value that is no object.                        *)
(***************************************************************************)
EXTENDS Integers, Sequences, FiniteSets, TLC

(***************************************************************************)
(* Bounds of the model.                                                    *)
(***************************************************************************)
\* the largest number of is_duplicate_record calls followed in one history
MaxCalls == 4

\* the largest number of records in one page of the source
MaxPageLen == 1

\* the largest total the source reports for a district
MaxTotal == 2

\* the largest batch_size process_districts is called with
MaxBatchSize == 2

\* the largest number of districts process_districts is called with
MaxDistricts == 2

\* the largest number of records save_data is followed with
MaxSaved == 6

\* the largest total_available save_data is followed with
MaxAvailable == 6

\* the largest number of activities in the list of an Activities field
MaxActivities == 2

\* the largest max_retries a fetch_batch call is followed with
MaxRetries == 3

\* max_retries of fetch_all_district_data (its default, which
\* process_districts never overrides)
DefaultMaxRetries == 3

(***************************************************************************)
(* Text: str.strip(), str.lower(), '|'.join                                *)
(***************************************************************************)
Whitespace == {" "}

LowerChar(c) ==
    CASE c = "A" -> "a"
      [] c = "B" -> "b"
      [] OTHER -> c

lower(s) == [k \in 1..Len(s) |-> LowerChar(s[k])]

RECURSIVE lstrip(_)
lstrip(s) ==
    IF s # <<>> /\ Head(s) \in Whitespace THEN lstrip(Tail(s)) ELSE s

RECURSIVE rstrip(_)
rstrip(s) ==
    IF s # <<>> /\ s[Len(s)] \in Whitespace
    THEN rstrip(SubSeq(s, 1, Len(s) - 1))
    ELSE s

strip(s) == rstrip(lstrip(s))

RECURSIVE join(_, _)
join(sep, parts) ==
    IF parts = <<>> THEN <<>>
    ELSE IF Len(parts) = 1 THEN parts[1]
    ELSE parts[1] \o sep \o join(sep, Tail(parts))

(***************************************************************************)
(* Records of the source.                                                  *)
(***************************************************************************)
Obj(f) == [t |-> "obj", f |-> f]
NonObj == [t |-> "str"]
IsObj(v) == v.t = "obj"

\* dict.get(field, default)
get(record, field, default) ==
    IF field \in DOMAIN record.f THEN record.f[field] ELSE default

key_fields == <<"District", "State", "EnterpriseName", "CommunicationAddress">>

\* str.capitalize() of the four key fields
capitalize(field) ==
    CASE field = "District" -> "District"
      [] field = "State" -> "State"
      [] field = "EnterpriseName" -> "Enterprisename"
      [] field = "CommunicationAddress" -> "Communicationaddress"

\* Two spellings of one enterprise, and another enterprise.
RecA == Obj([District |-> <<"a">>, EnterpriseName |-> <<"b">>])
RecA2 == Obj([District |-> <<" ", "A">>, Enterprisename |-> <<"B", " ">>])
RecB == Obj([District |-> <<"a">>, EnterpriseName |-> <<"a", "b">>])
GoodRecords == {RecA, RecA2, RecB}
\* what a page of the source may hold: a record (again and again), and a
\* value that is no mapping
PageItems == {RecA, NonObj}

generate_record_id(record) ==
    join(<<"|">>,
         [k \in 1..Len(key_fields) |->
            lower(strip(get(record, key_fields[k],
                            get(record, capitalize(key_fields[k]), <<>>))))])

\* a mutant of is_duplicate_record: the key is not added to the scope
is_duplicate_record_no_insert(scope, record) ==
    [dup |-> generate_record_id(record) \in scope, scope |-> scope]

\* is_duplicate_record as a function of the scope: the answer and the new scope
is_duplicate_record(scope, record) ==
    LET record_id == generate_record_id(record) IN
    IF record_id \in scope
    THEN [dup |-> TRUE, scope |-> scope]
    ELSE [dup |-> FALSE, scope |-> scope \cup {record_id}]

(***************************************************************************)
(* State.                                                                  *)
(***************************************************************************)
VARIABLES
    json_error_is_request_exception,
        \* the installed requests library: whether the error response.json()
        \* raises on a malformed body is a requests.exceptions.RequestException
        \* (requests >= 2.27) or only a json.JSONDecodeError / ValueError
    pc,                 \* the statement control is at
    stack,              \* the callers' return points
    districts,          \* process_districts: the list it was called with
    batch_size,         \* process_districts / fetch_all_district_data: batch_size
    i,                  \* process_districts: enumerate(districts, 1)
    processed_records,  \* self.processed_records
    temp_processed,     \* process_districts: temp_processed
    total_available,    \* process_districts: total_available
    all_data,           \* process_districts: all_data
    summary,            \* process_districts: summary
    disk,               \* the archives of the output directory
    report,             \* print_final_summary: the TOTAL line
    begun,              \* history: the districts whose processing began, in order
    raised_in,          \* history: the indexes of the districts an exception left
    total_records,      \* fetch_all_district_data: total_records
    total_batches,      \* fetch_all_district_data: total_batches
    batch,              \* fetch_all_district_data: batch
    all_records,        \* fetch_all_district_data: all_records
    offsets,            \* history: the offsets this fetch_all_district_data call asked for
    max_retries,        \* fetch_batch: max_retries
    attempt,            \* fetch_batch: attempt
    batch_records,      \* what fetch_batch returns
    now,                \* history: seconds since this fetch_batch call began
    requests_sent,      \* history: the requests of this fetch_batch call
    calls,              \* history: the is_duplicate_record calls (SpecDedup)
    arg,                \* the argument of a function followed alone
    ret                 \* its result

vars == <<json_error_is_request_exception, pc, stack, districts, batch_size, i,
          processed_records, temp_processed, total_available, all_data,
          summary, disk, report, begun, raised_in, total_records, total_batches, batch,
          all_records, offsets, max_retries, attempt, batch_records, now,
          requests_sent, calls, arg, ret>>

pd_vars == <<districts, batch_size, i, temp_processed, total_available,
             all_data, summary, disk, report, begun, raised_in>>
fa_vars == <<total_records, total_batches, batch, all_records, offsets>>
fb_vars == <<max_retries, attempt, batch_records, now, requests_sent>>
fn_vars == <<calls, arg, ret>>

None == "None"

(***************************************************************************)
(* The source: what one GET may answer.                                    *)
(***************************************************************************)
RECURSIVE SeqsUpTo(_, _)
SeqsUpTo(S, n) ==
    IF n = 0 THEN {<<>>}
    ELSE LET shorter == SeqsUpTo(S, n - 1) IN
         shorter \cup {Append(s, x) : s \in {t \in shorter : Len(t) = n - 1}, x \in S}

Pages == SeqsUpTo(PageItems, MaxPageLen)

\* "request_error": requests.get or raise_for_status raises a
\*    RequestException (no connection, a timeout, a status that is not 2xx);
\* "decode_error": the body is no JSON, response.json() raises;
\* "unexpected": the body is JSON but no object, data.get raises;
\* "ok": the body is an object, and data.get('records', []) is the page.
Responses ==
    {[kind |-> k, records |-> <<>>] :
        k \in {"request_error", "decode_error", "unexpected"}}
    \cup {[kind |-> "ok", records |-> p] : p \in Pages}

(***************************************************************************)
(* fetch_batch                                                             *)
(***************************************************************************)
RECURSIVE Pow2(_)
Pow2(n) == IF n = 0 THEN 1 ELSE 2 * Pow2(n - 1)

\* a mutant of backoff_delay: 2 * attempt
backoff_delay_linear(a) == 2 * a

\* time.sleep(2 ** attempt)
backoff_delay(a) == Pow2(a)

\* which failures the clause `except requests.exceptions.RequestException`
\* takes: it is the first clause, so it takes a decode error whenever the
\* library raises one that is a RequestException
handled_as_request_error(kind) ==
    \/ kind = "request_error"
    \/ kind = "decode_error" /\ json_error_is_request_exception

\* return from the function control is in
Return ==
    /\ pc' = IF stack = <<>> THEN "done" ELSE Head(stack)
    /\ stack' = IF stack = <<>> THEN <<>> ELSE Tail(stack)

\* attempt and the clock of the call are dead in a caller, and cleared there
LeaveFetchBatch ==
    /\ attempt' = IF stack = <<>> THEN attempt ELSE 0
    /\ now' = IF stack = <<>> THEN now ELSE 0

\* one iteration of `for attempt in range(max_retries)`, the source
\* answering r: the request, and then `return records`, or the except clause
\* that takes the failure (a sleep and the next iteration, or `return []`).
\* The history of requests is kept for a call followed alone.
FbIteration(r) ==
    /\ pc = "fb_attempt"
    /\ attempt < max_retries
    /\ requests_sent' =
          IF stack = <<>>
          THEN Append(requests_sent, [at |-> now, kind |-> r.kind,
                                      records |-> r.records])
          ELSE requests_sent
    /\ IF r.kind = "ok"
       THEN /\ batch_records' = r.records
            /\ Return
            /\ LeaveFetchBatch
       ELSE IF handled_as_request_error(r.kind) /\ attempt < max_retries - 1
       THEN /\ now' = now + backoff_delay(attempt)
            /\ attempt' = attempt + 1
            /\ UNCHANGED <<pc, stack, batch_records>>
       ELSE /\ batch_records' = <<>>
            /\ Return
            /\ LeaveFetchBatch
    /\ UNCHANGED <<json_error_is_request_exception, processed_records,
                   max_retries, pd_vars, fa_vars, fn_vars>>

FbSuccess == \E p \in Pages : FbIteration([kind |-> "ok", records |-> p])
FbRequestError == FbIteration([kind |-> "request_error", records |-> <<>>])
FbDecodeError == FbIteration([kind |-> "decode_error", records |-> <<>>])
FbUnexpectedError == FbIteration([kind |-> "unexpected", records |-> <<>>])

(***************************************************************************)
(* Formatting: str(n) and f"{num/den*100:.1f}".  The float quotient is     *)
(* formatted to the nearest tenth, a tie going to the even tenth (6.25 is  *)
(* "6.2"); on the values followed here the float equals the exact quotient *)
(* wherever that decides the digit.                                        *)
(***************************************************************************)
Digit(d) ==
    CASE d = 0 -> "0" [] d = 1 -> "1" [] d = 2 -> "2" [] d = 3 -> "3"
      [] d = 4 -> "4" [] d = 5 -> "5" [] d = 6 -> "6" [] d = 7 -> "7"
      [] d = 8 -> "8" [] d = 9 -> "9"

RECURSIVE str(_)
str(n) == IF n < 10 THEN Digit(n) ELSE str(n \div 10) \o Digit(n % 10)

\* a number of tenths as "<units>.<tenth>"
Dec1(tenths) == str(tenths \div 10) \o "." \o Digit(tenths % 10)

\* a mutant of percent_tenths: the digits after the first decimal cut off
percent_tenths_truncated(num, den) == (1000 * num) \div den

\* num/den*100 in tenths, as the format .1f rounds it
percent_tenths(num, den) ==
    LET q == (1000 * num) \div den
        r == (1000 * num) % den
    IN IF 2 * r > den \/ (2 * r = den /\ q % 2 = 1) THEN q + 1 ELSE q

format_1f(num, den) == Dec1(percent_tenths(num, den))

(***************************************************************************)
(* save_data                                                               *)
(***************************************************************************)
\* the metadata save_data dumps (without its timestamp)
metadata(district, data, total) ==
    [district |-> district,
     total_records_available |-> total,
     records_fetched |-> Len(data),
     fetch_completion |->
        IF total > 0
        THEN str(Len(data)) \o "/" \o str(total) \o " ("
                \o format_1f(Len(data), total) \o "%)"
        ELSE "N/A",
     data |-> data]

\* f[k] = v of a dict: summary[district] = entry, and the file of a district
\* written
Put(f, k, v) == [x \in DOMAIN f \cup {k} |-> IF x = k THEN v ELSE f[x]]

\* the output directory after save_data(district, data, total), the write
\* succeeding or raising (which save_data logs)
save_data(files, district, data, total, written) ==
    IF data = <<>> \/ ~written
    THEN files
    ELSE Put(files, district, metadata(district, data, total))

(***************************************************************************)
(* fetch_all_district_data                                                 *)
(***************************************************************************)
\* what get_total_records may return: data.get('total', 0) of the source's
\* answer, or 0 when the request fails; 2500 is followed with pages of 1000
TotalAnswers(limit) == 0..MaxTotal \cup (IF limit = 1000 THEN {2500} ELSE {})

\* a mutant of ceil_div: the quotient rounded down
floor_div(a, b) == a \div b

\* math.ceil(a / b)
ceil_div(a, b) == IF a % b = 0 THEN a \div b ELSE a \div b + 1

\* the loop over a batch that keeps the records is_duplicate_record accepts;
\* a record that is no mapping has no get, and the call raises
RECURSIVE filter_duplicates(_, _, _)
filter_duplicates(records, scope, unique) ==
    IF records = <<>>
    THEN [raised |-> FALSE, unique |-> unique, scope |-> scope]
    ELSE IF ~IsObj(Head(records))
    THEN [raised |-> TRUE, unique |-> unique, scope |-> scope]
    ELSE LET r == is_duplicate_record(scope, Head(records)) IN
         filter_duplicates(Tail(records), r.scope,
                           IF r.dup THEN unique ELSE Append(unique, Head(records)))

\* an exception leaves the function: to the except clause of
\* process_districts when that is a caller, to the top otherwise
Raise ==
    /\ pc' = IF stack = <<>> THEN "raised" ELSE "pd_except"
    /\ stack' = <<>>

\* total_records = self.get_total_records(district), and the batch count
FaGetTotal ==
    \E total \in TotalAnswers(batch_size) :
        /\ pc = "fa_get_total"
        /\ total_records' = total
        /\ all_records' = <<>>
        /\ offsets' = <<>>
        /\ batch' = 0
        /\ IF total = 0
           THEN /\ all_data' = <<>>
                /\ total_batches' = 0
                /\ Return
           ELSE /\ total_batches' = ceil_div(total, batch_size)
                /\ pc' = "fa_loop"
                /\ UNCHANGED <<stack, all_data>>
        /\ UNCHANGED <<json_error_is_request_exception, processed_records,
                       districts, batch_size, i, temp_processed, total_available,
                       summary, disk, report, begun, raised_in, fb_vars, fn_vars>>

\* the next batch: self.fetch_batch(district, offset, batch_size, max_retries)
FaNextBatch ==
    /\ pc = "fa_loop"
    /\ batch < total_batches
    /\ offsets' = Append(offsets, batch * batch_size)
    /\ stack' = <<"fa_filter">> \o stack
    /\ pc' = "fb_attempt"
    /\ attempt' = 0
    /\ now' = 0
    /\ requests_sent' = <<>>
    /\ UNCHANGED <<json_error_is_request_exception, processed_records, pd_vars,
                   total_records, total_batches, batch, all_records,
                   max_retries, batch_records, fn_vars>>

\* the batch came back: its duplicates filtered, the rest kept (and the
\* locals of the fetch_batch call that is over cleared)
FaFilter ==
    LET f == filter_duplicates(batch_records, processed_records, <<>>) IN
    /\ pc = "fa_filter"
    /\ processed_records' = f.scope
    /\ IF f.raised
       THEN /\ Raise
            /\ raised_in' = raised_in \cup {i}
            /\ UNCHANGED <<all_records, batch>>
       ELSE /\ all_records' = all_records \o f.unique
            /\ batch' = batch + 1
            /\ pc' = "fa_loop"
            /\ UNCHANGED <<stack, raised_in>>
    /\ batch_records' = <<>>
    /\ UNCHANGED <<json_error_is_request_exception, districts, batch_size, i,
                   temp_processed, total_available, all_data, summary, disk,
                   report, begun, total_records, total_batches, offsets,
                   max_retries, attempt, now, requests_sent, fn_vars>>

\* the loop is over: return all_records
FaReturn ==
    /\ pc = "fa_loop"
    /\ batch = total_batches
    /\ all_data' = all_records
    /\ Return
    /\ UNCHANGED <<json_error_is_request_exception, processed_records,
                   districts, batch_size, i, temp_processed, total_available,
                   summary, disk, report, begun, raised_in, fa_vars, fb_vars,
                   fn_vars>>

(***************************************************************************)
(* process_districts                                                       *)
(***************************************************************************)
DistrictNames == <<"LATUR", "AGRA", "INDORE", "ERODE">>

district == districts[i]

\* a mutant of fresh_scope: the scope of the district before is kept
kept_scope == processed_records

\* district_processed_records = set()
fresh_scope == {}

\* the next district: its scope made empty
PdBeginDistrict ==
    /\ pc = "pd_loop"
    /\ i <= Len(districts)
    /\ temp_processed' = processed_records
    /\ processed_records' = fresh_scope
    /\ begun' = Append(begun, district)
    /\ pc' = "pd_get_total"
    /\ UNCHANGED <<json_error_is_request_exception, stack, districts,
                   batch_size, i, total_available, all_data, summary, disk,
                   report, raised_in, fa_vars, fb_vars, fn_vars>>

\* total_available = self.get_total_records(district), and the call of
\* self.fetch_all_district_data(district, batch_size)
PdGetTotal ==
    \E total \in TotalAnswers(batch_size) :
        /\ pc = "pd_get_total"
        /\ total_available' = total
        /\ stack' = <<"pd_save">>
        /\ pc' = "fa_get_total"
        /\ max_retries' = DefaultMaxRetries
        /\ UNCHANGED <<json_error_is_request_exception, processed_records,
                       districts, batch_size, i, temp_processed, all_data,
                       summary, disk, report, begun, raised_in, fa_vars,
                       attempt, batch_records, now, requests_sent, fn_vars>>

\* self.save_data(district, all_data, total_available)
PdSave ==
    \E written \in BOOLEAN :
        /\ pc = "pd_save"
        /\ disk' = save_data(disk, district, all_data, total_available, written)
        /\ pc' = "pd_store"
        /\ UNCHANGED <<json_error_is_request_exception, stack,
                       processed_records, districts, batch_size, i,
                       temp_processed, total_available, all_data, summary,
                       report, begun, raised_in, fa_vars, fb_vars, fn_vars>>

\* a mutant of after_error: the loop is left
after_error_break(k) == Len(districts) + 1

\* `continue`: the index of the district after an except clause
after_error(k) == k + 1

\* the locals of the iteration that is over, cleared
LocalsCleared ==
    /\ total_available' = 0
    /\ all_data' = <<>>
    /\ total_records' = 0
    /\ total_batches' = 0
    /\ batch' = 0
    /\ all_records' = <<>>
    /\ offsets' = <<>>
    /\ attempt' = 0
    /\ batch_records' = <<>>
    /\ now' = 0

\* the district's statistics stored, the scope of before the run restored
PdStore ==
    /\ pc = "pd_store"
    /\ summary' = Put(summary, district,
                      [error |-> FALSE,
                       total_available |-> total_available,
                       fetched |-> Len(all_data),
                       completion_rate |->
                          IF total_available > 0
                          THEN format_1f(Len(all_data), total_available) \o "%"
                          ELSE "0%"])
    /\ processed_records' = temp_processed
    /\ i' = i + 1
    /\ pc' = "pd_loop"
    /\ LocalsCleared
    /\ UNCHANGED <<json_error_is_request_exception, stack, districts,
                   batch_size, temp_processed, disk, report, begun, raised_in,
                   max_retries, requests_sent, fn_vars>>

\* except Exception: an error entry, and on to the next district
PdExcept ==
    /\ pc = "pd_except"
    /\ summary' = Put(summary, district,
                      [error |-> TRUE, total_available |-> 0, fetched |-> 0,
                       completion_rate |-> ""])
    /\ i' = after_error(i)
    /\ pc' = "pd_loop"
    /\ LocalsCleared
    /\ UNCHANGED <<json_error_is_request_exception, stack, processed_records,
                   districts, batch_size, temp_processed, disk, report, begun,
                   raised_in, max_retries, requests_sent, fn_vars>>

\* the sums print_final_summary takes over the entries that are no error
RECURSIVE SumOver(_, _, _)
SumOver(f, keys, field) ==
    IF keys = {} THEN 0
    ELSE LET k == CHOOSE x \in keys : TRUE IN
         (IF f[k].error THEN 0 ELSE f[k][field]) + SumOver(f, keys \ {k}, field)

\* self.print_final_summary(summary): the TOTAL line divides by the sum of
\* total_available
PdReport ==
    LET available == SumOver(summary, DOMAIN summary, "total_available")
        fetched == SumOver(summary, DOMAIN summary, "fetched")
    IN
    /\ pc = "pd_loop"
    /\ i > Len(districts)
    /\ IF available = 0
       THEN /\ pc' = "raised"
            /\ UNCHANGED report
       ELSE /\ report' = str(fetched) \o "/" \o str(available) \o " records ("
                            \o format_1f(fetched, available)
                            \o "% overall completion)"
            /\ pc' = "done"
    /\ UNCHANGED <<json_error_is_request_exception, stack, processed_records,
                   districts, batch_size, i, temp_processed, total_available,
                   all_data, summary, disk, begun, raised_in, fa_vars, fb_vars,
                   fn_vars>>

(***************************************************************************)
(* Values of the variables a specification does not use.                   *)
(***************************************************************************)
PdIdle ==
    /\ districts = <<>>
    /\ batch_size = 1
    /\ i = 1
    /\ temp_processed = {}
    /\ total_available = 0
    /\ all_data = <<>>
    /\ summary = <<>>
    /\ disk = <<>>
    /\ report = None
    /\ begun = <<>>
    /\ raised_in = {}

FaIdle ==
    /\ total_records = 0
    /\ total_batches = 0
    /\ batch = 0
    /\ all_records = <<>>
    /\ offsets = <<>>

FbIdle ==
    /\ max_retries = DefaultMaxRetries
    /\ attempt = 0
    /\ batch_records = <<>>
    /\ now = 0
    /\ requests_sent = <<>>

FnIdle ==
    /\ calls = <<>>
    /\ arg = None
    /\ ret = None

(***************************************************************************)
(* SpecFetchBatch: one fetch_batch call, with every retry budget from 1 to *)
(* MaxRetries and every answer of the source to every attempt.  A request  *)
(* takes no time, the least the code can wait between two attempts.        *)
(***************************************************************************)
InitFetchBatch ==
    /\ json_error_is_request_exception \in BOOLEAN
    /\ pc = "fb_attempt"
    /\ stack = <<>>
    /\ processed_records = {}
    /\ max_retries \in 1..MaxRetries
    /\ attempt = 0
    /\ batch_records = <<>>
    /\ now = 0
    /\ requests_sent = <<>>
    /\ PdIdle /\ FaIdle /\ FnIdle

NextFetchBatch ==
    \/ FbSuccess
    \/ FbRequestError
    \/ FbDecodeError
    \/ FbUnexpectedError

SpecFetchBatch == InitFetchBatch /\ [][NextFetchBatch]_vars

Sent == Len(requests_sent)

\* C3: a fetch_batch call asks again only after an attempt that failed at
\* the request level (a network error, a status that is not 2xx), never
\* sends more than max_retries requests, returns the records of the first
\* attempt that succeeded, and returns the empty sequence when max_retries
\* attempts failed.
C3_RetryOnlyOnRequestFailure ==
    /\ Sent <= max_retries
    /\ \A k \in 1..(Sent - 1) : requests_sent[k].kind = "request_error"
    /\ pc = "done" =>
          /\ requests_sent[Sent].kind = "ok" =>
                batch_records = requests_sent[Sent].records
          /\ (Sent = max_retries /\ requests_sent[Sent].kind # "ok") =>
                batch_records = <<>>

\* C4: after an attempt whose body could not be decoded, fetch_batch sends
\* no further request and returns the empty sequence.
C4_DecodeErrorFailsFast ==
    \A k \in 1..Sent :
        requests_sent[k].kind = "decode_error" =>
            /\ k = Sent
            /\ pc = "done" => batch_records = <<>>

\* C10: attempt k+1 is sent no sooner than 2^k seconds after attempt k
\* failed (attempts numbered from 0), and fetch_batch returns without any
\* delay after its last attempt.
C10_BackoffBeforeNextAttempt ==
    /\ \A k \in 1..(Sent - 1) :
          requests_sent[k + 1].at - requests_sent[k].at >= Pow2(k - 1)
    /\ pc = "done" => now = requests_sent[Sent].at

\* the retry budget of 3 spent on failures: delays of 1 and 2 seconds taken,
\* none after the third failure
C10_Witness ==
    /\ pc = "done"
    /\ max_retries = 3
    /\ Sent = 3
    /\ \A k \in 1..3 : requests_sent[k].kind = "request_error"
    /\ requests_sent[2].at = 1
    /\ requests_sent[3].at = 3
    /\ now = 3
    /\ batch_records = <<>>

(***************************************************************************)
(* SpecDedup: is_duplicate_record called on any records in any order on a  *)
(* fetcher as __init__ leaves it, and the scope replaced by an empty one   *)
(* (as process_districts does for each district) at any point between.     *)
(***************************************************************************)
InitDedup ==
    /\ json_error_is_request_exception = FALSE
    /\ pc = "dedup"
    /\ stack = <<>>
    /\ processed_records = {}
    /\ PdIdle /\ FaIdle /\ FbIdle /\ FnIdle

\* self.is_duplicate_record(record)
DedupCall ==
    \E record \in GoodRecords :
        LET r == is_duplicate_record(processed_records, record) IN
        /\ pc = "dedup"
        /\ Len(calls) < MaxCalls
        /\ processed_records' = r.scope
        /\ calls' = Append(calls, [op |-> "call", record |-> record, dup |-> r.dup])
        /\ UNCHANGED <<json_error_is_request_exception, pc, stack, pd_vars,
                       fa_vars, fb_vars, arg, ret>>

\* the scope replaced by a fresh empty set
DedupReset ==
    /\ pc = "dedup"
    /\ Len(calls) < MaxCalls
    /\ temp_processed' = processed_records
    /\ processed_records' = {}
    /\ calls' = Append(calls, [op |-> "reset", record |-> NonObj, dup |-> FALSE])
    /\ UNCHANGED <<json_error_is_request_exception, pc, stack, districts,
                   batch_size, i, total_available, all_data, summary, disk,
                   report, begun, raised_in, fa_vars, fb_vars, arg, ret>>

NextDedup == DedupCall \/ DedupReset

SpecDedup == InitDedup /\ [][NextDedup]_vars

\* call m and call n, m < n, are calls in one scope with equal Identity Keys
SameKeySameScope(m, n) ==
    /\ calls[m].op = "call"
    /\ generate_record_id(calls[m].record) = generate_record_id(calls[n].record)
    /\ \A j \in m..n : calls[j].op # "reset"

\* C1: a call of is_duplicate_record rejects its record exactly when an
\* earlier call since the last reset of the scope had a record with the same
\* Identity Key: within a scope a key is accepted once, by the first call
\* with it, and after a reset it is accepted again.
C1_AcceptedOncePerScope ==
    \A n \in 1..Len(calls) :
        calls[n].op = "call" =>
            (calls[n].dup <=> \E m \in 1..(n - 1) : SameKeySameScope(m, n))

\* a record accepted, another spelling of it rejected, and after a reset the
\* record accepted again
C1_Witness ==
    /\ Len(calls) = 4
    /\ calls[1] = [op |-> "call", record |-> RecA, dup |-> FALSE]
    /\ calls[2] = [op |-> "call", record |-> RecA2, dup |-> TRUE]
    /\ calls[3].op = "reset"
    /\ calls[4] = [op |-> "call", record |-> RecA, dup |-> FALSE]

(***************************************************************************)
(* Spec: process_districts on a list of one to MaxDistricts distinct       *)
(* districts, on a fetcher holding any keys from before.                   *)
(***************************************************************************)
Init ==
    /\ json_error_is_request_exception \in BOOLEAN
    /\ pc = "pd_loop"
    /\ stack = <<>>
    /\ districts \in {SubSeq(DistrictNames, 1, n) : n \in 1..MaxDistricts}
    /\ batch_size \in 1..MaxBatchSize
    /\ i = 1
    /\ processed_records \in {{}, {generate_record_id(RecA)}}
    /\ temp_processed = {}
    /\ total_available = 0
    /\ all_data = <<>>
    /\ summary = <<>>
    /\ disk = <<>>
    /\ report = None
    /\ begun = <<>>
    /\ raised_in = {}
    /\ FaIdle /\ FbIdle /\ FnIdle

Next ==
    \/ PdBeginDistrict
    \/ PdGetTotal
    \/ FaGetTotal
    \/ FaNextBatch
    \/ FbSuccess
    \/ FbRequestError
    \/ FbDecodeError
    \/ FbUnexpectedError
    \/ FaFilter
    \/ FaReturn
    \/ PdSave
    \/ PdStore
    \/ PdExcept
    \/ PdReport

Spec == Init /\ [][Next]_vars

\* the loop of process_districts is over
LoopOver == pc \in {"done", "raised"} \/ (pc = "pd_loop" /\ i > Len(districts))

\* C5: the districts are begun in the order of the list; each district the
\* loop is past has a Summary Entry, an error entry exactly when an exception
\* left its processing; and when the loop is over every district of the list
\* was begun and the summary holds one entry for each.
C5_ErrorsIsolatedPerDistrict ==
    /\ begun = SubSeq(districts, 1, Len(begun))
    /\ \A k \in 1..(i - 1) :
          /\ districts[k] \in DOMAIN summary
          /\ summary[districts[k]].error <=> k \in raised_in
    /\ LoopOver =>
          /\ begun = districts
          /\ DOMAIN summary = {districts[k] : k \in 1..Len(districts)}

\* the first of two districts failed, the second was still fetched and has
\* its statistics entry
C5_Witness ==
    /\ LoopOver
    /\ Len(districts) = 2
    /\ raised_in = {1}
    /\ summary[districts[1]].error
    /\ ~summary[districts[2]].error
    /\ summary[districts[2]].fetched = 1

\* C6: a run of process_districts never ends in a failure handed to its
\* caller: it ends with the final summary printed, whose percentage is
\* "N/A" when no district that completed reported any record.
C6_BatchEndsNormally ==
    /\ pc # "raised"
    /\ pc = "done" => report # None

\* the keys of the records fetch_all_district_data holds so far
KeysOf(records) == {generate_record_id(records[k]) : k \in 1..Len(records)}

\* C7: when the fetch of a district begins the Fetch Scope is empty, and
\* during the fetch it holds the keys of the records accepted for this
\* district and no other: a key accepted for an earlier district, or held
\* before the run, does not make a record of this district a duplicate.
C7_ScopeEmptyAtDistrictStart ==
    /\ pc \in {"pd_get_total", "fa_get_total"} => processed_records = {}
    /\ pc \in {"fa_loop", "fb_attempt", "fa_filter"} =>
          processed_records = KeysOf(all_records)

\* the record archived for the first district is accepted again for the
\* second, on a fetcher that held its key before the run
C7_Witness ==
    /\ pc = "fa_loop"
    /\ i = 2
    /\ temp_processed = {generate_record_id(RecA)}
    /\ districts[1] \in DOMAIN disk
    /\ disk[districts[1]].data = <<RecA>>
    /\ all_records = <<RecA>>

\* C11: the total that process_districts hands to save_data and stores in
\* the Summary Entry is the total fetch_all_district_data decided its pages
\* by; hence no archive that holds records says total_records_available = 0
\* or fetch_completion "N/A", whatever the source answers to each
\* total-count request.
C11_RecordedTotalIsFetchTotal ==
    /\ pc \in {"pd_save", "pd_store"} => total_available = total_records
    /\ \A d \in DOMAIN disk :
          disk[d].data # <<>> =>
              /\ disk[d].total_records_available > 0
              /\ disk[d].fetch_completion # "N/A"

(***************************************************************************)
(* SpecFetchAll: one fetch_all_district_data call, with every batch_size   *)
(* up to MaxBatchSize and every total up to MaxTotal, and with a total of  *)
(* 2500 in batches of 1000.                                                *)
(***************************************************************************)
InitFetchAll ==
    /\ json_error_is_request_exception \in BOOLEAN
    /\ pc = "fa_get_total"
    /\ stack = <<>>
    /\ processed_records = {}
    /\ districts = <<>>
    /\ batch_size \in 1..MaxBatchSize \cup {1000}
    /\ i = 1
    /\ temp_processed = {}
    /\ total_available = 0
    /\ all_data = <<>>
    /\ summary = <<>>
    /\ disk = <<>>
    /\ report = None
    /\ begun = <<>>
    /\ raised_in = {}
    /\ FaIdle /\ FbIdle /\ FnIdle

NextFetchAll ==
    \/ FaGetTotal
    \/ FaNextBatch
    \/ FbSuccess
    \/ FbRequestError
    \/ FbDecodeError
    \/ FbUnexpectedError
    \/ FaFilter
    \/ FaReturn

SpecFetchAll == InitFetchAll /\ [][NextFetchAll]_vars

\* C2: the k-th page fetch_all_district_data asks for has offset
\* (k-1)*batch_size, whatever the pages before it held; no page is asked for
\* at or past the total (none at all for a total of 0); and when the call
\* returns, the pages asked for cover the total: they are the
\* ceil(total/batch_size) pages, in increasing order of offset.
C2_PagesRequested ==
    LET n == Len(offsets) IN
    /\ \A k \in 1..n : offsets[k] = (k - 1) * batch_size
    /\ n >= 1 => (n - 1) * batch_size < total_records
    /\ pc = "done" => n * batch_size >= total_records

\* 2500 records in batches of 1000: offsets 0, 1000, 2000, every page of the
\* three empty or failed
C2_Witness ==
    /\ pc = "done"
    /\ total_records = 2500
    /\ batch_size = 1000
    /\ offsets = <<0, 1000, 2000>>
    /\ all_data = <<>>

(***************************************************************************)
(* SpecSave: one save_data call into an empty output directory, with 0 to  *)
(* MaxSaved records and a total_available of 0 to MaxAvailable, and with   *)
(* 750 records of 1000.                                                    *)
(***************************************************************************)
Repeat(record, n) == [k \in 1..n |-> record]

SaveArgs ==
    {[district |-> "LATUR", data |-> Repeat(RecA, n), total_available |-> t] :
        n \in 0..MaxSaved, t \in 0..MaxAvailable}
    \cup {[district |-> "LATUR", data |-> Repeat(RecA, 750),
           total_available |-> 1000]}

InitSave ==
    /\ json_error_is_request_exception = FALSE
    /\ pc = "save_data"
    /\ stack = <<>>
    /\ processed_records = {}
    /\ arg \in SaveArgs
    /\ disk = <<>>
    /\ districts = <<>>
    /\ batch_size = 1
    /\ i = 1
    /\ temp_processed = {}
    /\ total_available = 0
    /\ all_data = <<>>
    /\ summary = <<>>
    /\ report = None
    /\ begun = <<>>
    /\ raised_in = {}
    /\ calls = <<>>
    /\ ret = None
    /\ FaIdle /\ FbIdle

\* self.save_data(district, data, total_available)
SaveData ==
    \E written \in BOOLEAN :
        /\ pc = "save_data"
        /\ disk' = save_data(disk, arg.district, arg.data, arg.total_available,
                             written)
        /\ ret' = written
        /\ pc' = "done"
        /\ UNCHANGED <<json_error_is_request_exception, stack,
                       processed_records, districts, batch_size, i,
                       temp_processed, total_available, all_data, summary,
                       report, begun, raised_in, fa_vars, fb_vars, calls, arg>>

NextSave == SaveData

SpecSave == InitSave /\ [][NextSave]_vars

\* "<fetched>/<available> (<pct>%)" with pct the given number of tenths
Completion(fetched, available, tenths) ==
    str(fetched) \o "/" \o str(available) \o " (" \o Dec1(tenths) \o "%)"

\* tenths is fetched/available*100 to one decimal place: no further from it
\* than half a tenth
NearestTenth(tenths, fetched, available) ==
    LET d == tenths * available - 1000 * fetched IN
    2 * (IF d < 0 THEN -d ELSE d) <= available

\* C8: save_data writes no archive for an empty list of records; the
\* archive it writes has records_fetched equal to the length of its data,
\* and fetch_completion "<fetched>/<available> (<pct>%)", pct being
\* fetched/available*100 to one decimal place, when total_available > 0
\* ("750/1000 (75.0%)", "3/3 (100.0%)"), and "N/A" when it is 0.
C8_ArchiveMetadata ==
    pc = "done" =>
        LET archived == arg.district \in DOMAIN disk
            archive == disk[arg.district]
            n == Len(arg.data)
            t == arg.total_available
        IN
        /\ arg.data = <<>> => ~archived
        /\ (arg.data # <<>> /\ ret) => archived
        /\ archived =>
              /\ archive.data = arg.data
              /\ archive.records_fetched = Len(archive.data)
              /\ t = 0 => archive.fetch_completion = "N/A"
              /\ t > 0 =>
                    \E tenths \in 0..((1000 * n) \div t + 1) :
                        /\ NearestTenth(tenths, n, t)
                        /\ archive.fetch_completion = Completion(n, t, tenths)
              /\ (n = 750 /\ t = 1000) =>
                    archive.fetch_completion = "750/1000 (75.0%)"
              /\ (n = 3 /\ t = 3) =>
                    archive.fetch_completion = "3/3 (100.0%)"

\* 750 records of 1000 archived
C8_Witness ==
    /\ pc = "done"
    /\ Len(arg.data) = 750
    /\ arg.total_available = 1000
    /\ arg.district \in DOMAIN disk
    /\ disk[arg.district].records_fetched = 750
    /\ disk[arg.district].fetch_completion = "750/1000 (75.0%)"

(***************************************************************************)
(* parse_activities (src/parser.py).  A JSON text is a sequence of tokens; *)
(* json.loads is a parser of it.  A parsed value is one of                 *)
(*   Absent (Python None, which JSON null parses to), JStr, JNum,          *)
(*   JList(items) and JObject(members), the members in the order written.  *)
(***************************************************************************)
Absent == [t |-> "None", s |-> "", items |-> <<>>]
JStr(x) == [t |-> "str", s |-> x, items |-> <<>>]
JNum(x) == [t |-> "num", s |-> x, items |-> <<>>]
JList(xs) == [t |-> "list", s |-> "", items |-> xs]
JObject(ms) == [t |-> "object", s |-> "", items |-> ms]
Member(k, v) == [k |-> k, v |-> v]

\* tokens: punctuation, a string literal, a number, null, and text that is
\* no JSON token
P(c) == [k |-> "p", s |-> c]
TStr(x) == [k |-> "s", s |-> x]
TNum(x) == [k |-> "n", s |-> x]
TNull == [k |-> "l", s |-> "null"]
TBad == [k |-> "x", s |-> "?"]

\* a cell of the Activities column: a text, or a value that is no text (the
\* NaN of a record without the field, a null)
Text(toks) == [t |-> "text", toks |-> toks]
NotText == [t |-> "nan", toks |-> <<>>]

ParseFail == [ok |-> FALSE, val |-> Absent, rest |-> <<>>]
ParseOk(v, rest) == [ok |-> TRUE, val |-> v, rest |-> rest]

RECURSIVE parse_value(_), parse_elements(_, _), parse_members(_, _)
parse_value(ts) ==
    IF ts = <<>> THEN ParseFail
    ELSE LET h == Head(ts) IN
         CASE h.k = "l" -> ParseOk(Absent, Tail(ts))
           [] h.k = "s" -> ParseOk(JStr(h.s), Tail(ts))
           [] h.k = "n" -> ParseOk(JNum(h.s), Tail(ts))
           [] h = P("[") ->
                IF Len(ts) >= 2 /\ ts[2] = P("]")
                THEN ParseOk(JList(<<>>), Tail(Tail(ts)))
                ELSE parse_elements(Tail(ts), <<>>)
           [] h = P("{") ->
                IF Len(ts) >= 2 /\ ts[2] = P("}")
                THEN ParseOk(JObject(<<>>), Tail(Tail(ts)))
                ELSE parse_members(Tail(ts), <<>>)
           [] OTHER -> ParseFail

\* value ("," value)* "]"
parse_elements(ts, acc) ==
    LET r == parse_value(ts) IN
    IF ~r.ok \/ r.rest = <<>> THEN ParseFail
    ELSE IF Head(r.rest) = P(",")
    THEN parse_elements(Tail(r.rest), Append(acc, r.val))
    ELSE IF Head(r.rest) = P("]")
    THEN ParseOk(JList(Append(acc, r.val)), Tail(r.rest))
    ELSE ParseFail

\* string ":" value ("," string ":" value)* "}"
parse_members(ts, acc) ==
    IF Len(ts) < 2 \/ ts[1].k # "s" \/ ts[2] # P(":") THEN ParseFail
    ELSE LET r == parse_value(Tail(Tail(ts))) IN
         IF ~r.ok \/ r.rest = <<>> THEN ParseFail
         ELSE IF Head(r.rest) = P(",")
         THEN parse_members(Tail(r.rest), Append(acc, Member(ts[1].s, r.val)))
         ELSE IF Head(r.rest) = P("}")
         THEN ParseOk(JObject(Append(acc, Member(ts[1].s, r.val))), Tail(r.rest))
         ELSE ParseFail

\* json.loads(cell): the value, or the exception it raises
json_loads(cell) ==
    IF cell.t # "text" THEN [exc |-> "TypeError", val |-> Absent]
    ELSE LET r == parse_value(cell.toks) IN
         IF r.ok /\ r.rest = <<>>
         THEN [exc |-> "none", val |-> r.val]
         ELSE [exc |-> "JSONDecodeError", val |-> Absent]

\* d[key] of a parsed object: the last member with the key
HasKey(obj, key) == \E n \in 1..Len(obj.items) : obj.items[n].k = key
Lookup(obj, key) ==
    LET n == CHOOSE m \in 1..Len(obj.items) :
                /\ obj.items[m].k = key
                /\ \A j \in (m + 1)..Len(obj.items) : obj.items[j].k # key
    IN obj.items[n].v

\* activities[0][key]: the value, or the exception the subscript raises
subscript(first, key) ==
    IF first.t # "object" THEN [exc |-> "TypeError", val |-> Absent]
    ELSE IF ~HasKey(first, key) THEN [exc |-> "KeyError", val |-> Absent]
    ELSE [exc |-> "none", val |-> Lookup(first, key)]

\* the body of the try: the pair it returns, or the exception it raises
activities_of(cell) ==
    LET loaded == json_loads(cell) IN
    IF loaded.exc # "none" THEN [exc |-> loaded.exc, val |-> <<Absent, Absent>>]
    ELSE IF loaded.val.t = "list" /\ Len(loaded.val.items) > 0
    THEN LET code == subscript(loaded.val.items[1], "NIC5DigitId")
             text == subscript(loaded.val.items[1], "Description")
         IN IF code.exc # "none" THEN [exc |-> code.exc, val |-> <<Absent, Absent>>]
            ELSE IF text.exc # "none"
            THEN [exc |-> text.exc, val |-> <<Absent, Absent>>]
            ELSE [exc |-> "none", val |-> <<code.val, text.val>>]
    ELSE [exc |-> "none", val |-> <<Absent, Absent>>]

\* a mutant of caught: only the failure of json.loads on a text is caught
caught_decode_only(exc) == exc = "JSONDecodeError"

\* `except Exception` takes every exception the body raises
caught(exc) == TRUE

parse_activities(cell) ==
    LET r == activities_of(cell) IN
    IF r.exc = "none" THEN [raised |-> FALSE, val |-> r.val]
    ELSE IF caught(r.exc) THEN [raised |-> FALSE, val |-> <<Absent, Absent>>]
    ELSE [raised |-> TRUE, val |-> <<Absent, Absent>>]

\* one row through lines 26-33: the two new columns set, Activities deleted
flatten_row(row) ==
    LET parsed == parse_activities(row.Activities) IN
    [raised |-> parsed.raised,
     row |-> [c \in (DOMAIN row \cup {"NIC5Digit_code", "Activity_Description"})
                        \ {"Activities"} |->
                CASE c = "NIC5Digit_code" -> parsed.val[1]
                  [] c = "Activity_Description" -> parsed.val[2]
                  [] OTHER -> row[c]]]

(***************************************************************************)
(* SpecParse: one row whose Activities cell is the text of a JSON value    *)
(* (json.dumps of it), that text with one token missing, a text that is no *)
(* JSON, or no text.                                                       *)
(***************************************************************************)
RECURSIVE dumps(_), dumps_items(_), dumps_members(_)
dumps(v) ==
    CASE v.t = "None" -> <<TNull>>
      [] v.t = "str" -> <<TStr(v.s)>>
      [] v.t = "num" -> <<TNum(v.s)>>
      [] v.t = "list" -> <<P("[")>> \o dumps_items(v.items) \o <<P("]")>>
      [] v.t = "object" -> <<P("{")>> \o dumps_members(v.items) \o <<P("}")>>

dumps_items(xs) ==
    IF xs = <<>> THEN <<>>
    ELSE IF Len(xs) = 1 THEN dumps(xs[1])
    ELSE dumps(xs[1]) \o <<P(",")>> \o dumps_items(Tail(xs))

dumps_members(ms) ==
    IF ms = <<>> THEN <<>>
    ELSE LET one == <<TStr(ms[1].k), P(":")>> \o dumps(ms[1].v) IN
         IF Len(ms) = 1 THEN one
         ELSE one \o <<P(",")>> \o dumps_members(Tail(ms))

Code == Member("NIC5DigitId", JStr("01111"))
NoCode == Member("NIC5DigitId", Absent)
Description == Member("Description", JStr("Growing of cereals"))

\* the elements of a list: activities with both keys (one with a null
\* code), with one key, and values that are no object
Elements ==
    {JObject(<<Code, Description>>), JObject(<<Description, NoCode>>),
     JObject(<<Code>>), JObject(<<Description>>), JStr("01111"), JList(<<>>)}

\* the lists of at most MaxActivities elements, and values that are no list
ActivityValues ==
    {JList(xs) : xs \in SeqsUpTo(Elements, MaxActivities)}
    \cup {Absent, JNum("1"), JStr("01111"), JObject(<<Code, Description>>),
          JObject(<<>>)}

\* s without its k-th token (s itself for k = 0)
Without(toks, k) ==
    IF k = 0 THEN toks
    ELSE SubSeq(toks, 1, k - 1) \o SubSeq(toks, k + 1, Len(toks))

ParseArgs ==
    {[origin |-> v, dropped |-> k, cell |-> Text(Without(dumps(v), k))] :
        v \in ActivityValues, k \in 0..0}
    \cup UNION {{[origin |-> v, dropped |-> k, cell |-> Text(Without(dumps(v), k))] :
                    k \in 1..Len(dumps(v))} : v \in ActivityValues}
    \cup {[origin |-> Absent, dropped |-> 1, cell |-> Text(<<TBad>>)],
          [origin |-> Absent, dropped |-> 1, cell |-> NotText]}

InitParse ==
    /\ json_error_is_request_exception = FALSE
    /\ pc = "parse"
    /\ stack = <<>>
    /\ processed_records = {}
    /\ arg \in ParseArgs
    /\ calls = <<>>
    /\ ret = None
    /\ PdIdle /\ FaIdle /\ FbIdle

\* the row with this cell, flattened
ParseRow ==
    /\ pc = "parse"
    /\ ret' = flatten_row([EnterpriseName |-> JStr("b"), Activities |-> arg.cell])
    /\ pc' = "done"
    /\ UNCHANGED <<json_error_is_request_exception, stack, processed_records,
                   pd_vars, fa_vars, fb_vars, calls, arg>>

NextParse == ParseRow

SpecParse == InitParse /\ [][NextParse]_vars

\* v is a non-empty list whose first element is an object with both keys
HasFirstActivity(v) ==
    /\ v.t = "list"
    /\ Len(v.items) > 0
    /\ v.items[1].t = "object"
    /\ HasKey(v.items[1], "NIC5DigitId")
    /\ HasKey(v.items[1], "Description")

\* the two new columns of the row are what the value calls for
ColumnsFor(row, v) ==
    IF HasFirstActivity(v)
    THEN /\ row.NIC5Digit_code = Lookup(v.items[1], "NIC5DigitId")
         /\ row.Activity_Description = Lookup(v.items[1], "Description")
    ELSE /\ row.NIC5Digit_code = Absent
         /\ row.Activity_Description = Absent

\* C9: parse_activities never raises; the flattened row has the two new
\* columns and no Activities column; the new columns hold NIC5DigitId and
\* Description of the first element when the cell is the text of a
\* non-empty list whose first element has both, and the absent marker, both
\* of them, for every other cell (no text, text that does not parse, an
\* empty list, a value that is no list, a first element without one of the
\* keys or that is no object).
C9_FirstActivityOrAbsent ==
    pc = "done" =>
        /\ ~ret.raised
        /\ DOMAIN ret.row =
              {"EnterpriseName", "NIC5Digit_code", "Activity_Description"}
        /\ arg.dropped = 0 => ColumnsFor(ret.row, arg.origin)
        /\ json_loads(arg.cell).exc = "none" =>
              ColumnsFor(ret.row, json_loads(arg.cell).val)
        /\ json_loads(arg.cell).exc # "none" => ColumnsFor(ret.row, Absent)

\* the spec's example, and a second activity that is not looked at
C9_Witness ==
    /\ pc = "done"
    /\ arg.dropped = 0
    /\ arg.origin = JList(<<JObject(<<Code, Description>>), JObject(<<Code>>)>>)
    /\ ret.row.NIC5Digit_code = JStr("01111")
    /\ ret.row.Activity_Description = JStr("Growing of cereals")

====
